---- MODULE Spec2Model ----
(***************************************************************************)
(* rcalc: an RPN calculator over rationals (src/src/main.rs).              *)
(*                                                                         *)
(* A line is a sequence of characters (one-character strings).  The lexer  *)
(* splits it on whitespace and turns every fragment into a Token or a      *)
(* TokenError with a byte span; Calculator::parse lexes, runs the          *)
(* stack-depth verifier, runs the evaluator and normalizes the stack.      *)
(* main() reads a line, calls parse and prints the stack, forever.         *)
(*                                                                         *)
(* Rationals are records [n, d] with d > 0; arithmetic is exact and, as in *)
(* the ramp library, not reduced until normalize is called.  Dividing by a *)
(* zero rational is a fault of the library (a panic): the evaluator guards *)
(* Divide against it and does not guard Exp.                               *)
(***************************************************************************)
EXTENDS Integers, Sequences, FiniteSets

VARIABLES
    stack,   \* Calculator.stack: sequence of rationals, top is the last element
    pc,      \* position of main: "read" | "print" | "panic"
    line,    \* the line handed to the last parse call (sequence of characters)
    prev,    \* the stack as it was when the last parse call was entered
    result,  \* what the last parse call returned
    run,     \* what the evaluator met during the last parse call
    used     \* input consumed so far in the session (bounds the exploration)

vars == <<stack, pc, line, prev, result, run, used>>

\* Total number of fragments typed in one session of Spec.
MaxTyped == 4
\* Total number of characters typed in one session of SpecLex.
MaxChars == 4

-----------------------------------------------------------------------------
(* Rationals (ramp::rational::Rational as used by the calculator)          *)

Rat(n, d) == [n |-> n, d |-> d]

Abs(x) == IF x < 0 THEN -x ELSE x

RECURSIVE Gcd(_, _)
Gcd(a, b) == IF b = 0 THEN a ELSE Gcd(b, a % b)

\* num.normalize(): reduce to lowest terms, denominator positive
Normalize(r) ==
    LET g == Gcd(Abs(r.n), Abs(r.d))
        s == IF r.d < 0 THEN -1 ELSE 1
    IN  Rat(s * (r.n \div g), s * (r.d \div g))

IsZero(r) == r.n = 0

RatAdd(a, b) == Rat(a.n * b.d + b.n * a.d, a.d * b.d)
RatSub(a, b) == Rat(a.n * b.d - b.n * a.d, a.d * b.d)
RatMul(a, b) == Rat(a.n * b.n, a.d * b.d)
\* lhs / rhs for a non-zero rhs; the denominator is kept positive
RatDiv(a, b) ==
    IF b.n < 0 THEN Rat(-(a.n * b.d), -(a.d * b.n)) ELSE Rat(a.n * b.d, a.d * b.n)

-----------------------------------------------------------------------------
(* Strings: sequences of characters; lengths and spans count bytes         *)

\* UTF-8 length of a character; "U+E9" is the two-byte character e-acute and
\* stands for the non-ASCII characters
ByteLen(c) == IF c = "U+E9" THEN 2 ELSE 1

RECURSIVE StrLen(_)
StrLen(s) == IF s = <<>> THEN 0 ELSE ByteLen(Head(s)) + StrLen(Tail(s))

IsWhitespace(c) == c \in {" ", "\t"}

Digits == <<"0", "1", "2", "3", "4", "5", "6", "7", "8", "9">>
LowerHex == <<"a", "b", "c", "d", "e", "f">>
UpperHex == <<"A", "B", "C", "D", "E", "F">>

IsAsciiDigit(c) == \E i \in DOMAIN Digits : Digits[i] = c

\* char::to_digit(radix): the digit's value, or -1 when c is no digit of the radix
ToDigit(c, radix) ==
    LET v == IF \E i \in DOMAIN Digits : Digits[i] = c
               THEN (CHOOSE i \in DOMAIN Digits : Digits[i] = c) - 1
             ELSE IF \E i \in DOMAIN LowerHex : LowerHex[i] = c
               THEN (CHOOSE i \in DOMAIN LowerHex : LowerHex[i] = c) + 9
             ELSE IF \E i \in DOMAIN UpperHex : UpperHex[i] = c
               THEN (CHOOSE i \in DOMAIN UpperHex : UpperHex[i] = c) + 9
             ELSE -1
    IN  IF v < radix THEN v ELSE -1

RECURSIVE RadixValue(_, _, _)
RadixValue(s, radix, acc) ==
    IF s = <<>> THEN acc
    ELSE RadixValue(Tail(s), radix, acc * radix + ToDigit(Head(s), radix))

\* Int::from_str_radix on a string without a sign: an error on the empty string
\* and on any character that is no digit of the radix
FromStrRadix(s, radix) ==
    IF s = <<>> \/ \E i \in DOMAIN s : ToDigit(s[i], radix) = -1
    THEN [ok |-> FALSE, val |-> 0]
    ELSE [ok |-> TRUE, val |-> RadixValue(s, radix, 0)]

-----------------------------------------------------------------------------
(* Tokens and the lexer                                                    *)

BinaryOps == {"Plus", "Minus", "Times", "Divide", "Exp", "And", "Or"}

Op(t) == [type |-> t, val |-> Rat(0, 1)]
Number(n) == [type |-> "Number", val |-> Rat(n, 1)]

TokOk(tok) == [ok |-> TRUE, tok |-> tok, msg |-> "", start |-> 0, end |-> 0]
TokErr(msg, start, end) ==
    [ok |-> FALSE, tok |-> Op("Empty"), msg |-> msg, start |-> start, end |-> end]

unexpected_trailing_chars(from, token, size) ==
    IF StrLen(from) = size
    THEN TokOk(token)
    ELSE TokErr("Unexpected trailing characters", size, StrLen(from))

\* the characters of from after its first two (both one byte long): &from[2..]
AfterPrefix(from) == SubSeq(from, 3, Len(from))

NumberOrError(parsed, start, end) ==
    IF parsed.ok THEN TokOk(Number(parsed.val)) ELSE TokErr("radix parse", start, end)

OperatorOf(c) ==
    CASE c = "%" -> "Empty"
      [] c = "!" -> "Drop"
      [] c = "<" -> "Duplicate"
      [] c = "^" -> "Exp"
      [] c = "/" -> "Divide"
      [] c = "*" -> "Times"
      [] c = "+" -> "Plus"
      [] c = "-" -> "Minus"
      [] c = "|" -> "Or"
      [] c = "&" -> "And"
      [] OTHER -> "none"

\* <Token as FromStr>::from_str
from_str(from) ==
    IF from = <<>> THEN TokErr("unexpected empty token", 0, 0)
    ELSE LET c == Head(from) IN
         IF OperatorOf(c) # "none"
           THEN unexpected_trailing_chars(from, Op(OperatorOf(c)), 1)
         ELSE IF c = "0" THEN
           IF Len(from) >= 2 /\ from[2] = "x"
             THEN NumberOrError(FromStrRadix(AfterPrefix(from), 16), 2, StrLen(from))
           ELSE IF Len(from) >= 2 /\ from[2] = "b"
             THEN NumberOrError(FromStrRadix(AfterPrefix(from), 2), 2, StrLen(from))
           ELSE NumberOrError(FromStrRadix(from, 10), 0, StrLen(from))
         ELSE IF IsAsciiDigit(c)
           THEN NumberOrError(FromStrRadix(from, 10), 0, StrLen(from))
         ELSE TokErr("unexpected token", 0, StrLen(from))

\* from.split_whitespace(): the maximal runs of non-whitespace characters, in
\* order, each with the byte offset subslice_offset finds for it
RECURSIVE SplitFrom(_, _, _, _, _)
SplitFrom(rest, off, cur, curOff, acc) ==
    LET flushed == IF cur = <<>> THEN acc
                   ELSE Append(acc, [s |-> cur, offset |-> curOff])
    IN  IF rest = <<>> THEN flushed
        ELSE IF IsWhitespace(Head(rest))
          THEN SplitFrom(Tail(rest), off + ByteLen(Head(rest)), <<>>, 0, flushed)
        ELSE SplitFrom(Tail(rest), off + ByteLen(Head(rest)),
                       Append(cur, Head(rest)), IF cur = <<>> THEN off ELSE curOff, acc)

split_whitespace(from) == SplitFrom(from, 0, <<>>, 0, <<>>)

\* the closure with the span's end moved one byte too far
LexFragmentEndPastOne(frag) ==
    LET r == from_str(frag.s)
    IN  IF r.ok THEN r
        ELSE [r EXCEPT !.start = r.start + frag.offset, !.end = r.end + frag.offset + 1]

\* the closure with the span left relative to the fragment
LexFragmentNoOffset(frag) == from_str(frag.s)

\* the closure of Token::lex: from_str, with an error's span moved by the offset
LexFragment(frag) ==
    LET r == from_str(frag.s)
    IN  IF r.ok THEN r
        ELSE [r EXCEPT !.start = r.start + frag.offset, !.end = r.end + frag.offset]

\* Token::lex(from), every item of the iterator
lex(from) ==
    LET frags == split_whitespace(from)
    IN  [i \in DOMAIN frags |-> LexFragment(frags[i])]

-----------------------------------------------------------------------------
(* The stack-depth verifier                                                *)

\* Option<usize>: None is -1
None == -1

\* a subtraction that saturates at zero where checked_sub gives None
SaturatingSub(d, k) == IF d >= k THEN d - k ELSE 0

\* a checked subtraction that also refuses to reach zero
CheckedSubStrict(d, k) == IF d > k THEN d - k ELSE None

\* d.checked_sub(k)
checked_sub(d, k) == IF d >= k THEN d - k ELSE None

\* the closure with Duplicate counted as leaving the depth as it is
FoldStepDuplicateFlat(delta, token) ==
    CASE token.type = "Number" ->
           IF delta = None THEN None ELSE delta + 1
      [] token.type = "Duplicate" -> delta
      [] token.type \in BinaryOps ->
           IF delta = None THEN None
           ELSE IF checked_sub(delta, 2) = None THEN None
           ELSE checked_sub(delta, 2) + 1
      [] token.type = "Drop" ->
           IF delta = None THEN None ELSE checked_sub(delta, 1)
      [] token.type = "Empty" -> 0

\* the closure folded by stack_exhaustion
FoldStep(delta, token) ==
    CASE token.type \in {"Number", "Duplicate"} ->
           IF delta = None THEN None ELSE delta + 1
      [] token.type \in BinaryOps ->
           IF delta = None THEN None
           ELSE IF checked_sub(delta, 2) = None THEN None
           ELSE checked_sub(delta, 2) + 1
      [] token.type = "Drop" ->
           IF delta = None THEN None ELSE checked_sub(delta, 1)
      [] token.type = "Empty" -> 0

RECURSIVE Fold(_, _)
Fold(delta, tokens) ==
    IF tokens = <<>> THEN delta
    ELSE Fold(FoldStep(delta, Head(tokens)), Tail(tokens))

\* Calculator::stack_exhaustion: TRUE for Ok(()), FALSE for the Err
stack_exhaustion(depth, tokens) == Fold(depth, tokens) # None

-----------------------------------------------------------------------------
(* The evaluator                                                           *)

\* Vec::pop
Pop(s) ==
    IF s = <<>> THEN [some |-> FALSE, val |-> Rat(0, 1), rest |-> s]
    ELSE [some |-> TRUE, val |-> s[Len(s)], rest |-> SubSeq(s, 1, Len(s) - 1)]

\* the state of one compute call: the stack, whether it has returned an error or
\* faulted, and which pops found the stack empty
Started(s) ==
    [stack |-> s, err |-> FALSE, panic |-> FALSE,
     dupEmpty |-> FALSE, dropEmpty |-> FALSE, binShort |-> FALSE]

\* a Duplicate that gives up, touching nothing, unless two values are there
ExecDuplicateNeedsTwo(c) ==
    IF Len(c.stack) >= 2
    THEN [c EXCEPT !.stack = Pop(c.stack).rest
                       \o <<Normalize(Pop(c.stack).val), Normalize(Pop(c.stack).val)>>]
    ELSE [c EXCEPT !.err = TRUE, !.dupEmpty = TRUE]

\* a Duplicate that pushes the popped value back once
ExecDuplicateOnce(c) ==
    LET p == Pop(c.stack)
    IN  IF p.some
        THEN [c EXCEPT !.stack = Append(p.rest, Normalize(p.val))]
        ELSE [c EXCEPT !.err = TRUE, !.dupEmpty = TRUE]

ExecDuplicate(c) ==
    LET p == Pop(c.stack)
    IN  IF p.some
        THEN [c EXCEPT !.stack = p.rest \o <<Normalize(p.val), Normalize(p.val)>>]
        ELSE [c EXCEPT !.err = TRUE, !.dupEmpty = TRUE]

\* an Empty that drops the top value only
ExecEmptyTopOnly(c) == [c EXCEPT !.stack = Pop(c.stack).rest]

ExecEmpty(c) == [c EXCEPT !.stack = <<>>]

ExecDrop(c) ==
    LET p == Pop(c.stack)
    IN  [c EXCEPT !.stack = p.rest, !.dropEmpty = c.dropEmpty \/ ~p.some]

ExecNumber(c, n) == [c EXCEPT !.stack = Append(c.stack, n)]

\* a Divide without its test for a zero right-hand side
DivideUnguarded(lhs, rhs) ==
    IF IsZero(rhs) THEN [fault |-> TRUE, val |-> Rat(0, 1)]
    ELSE [fault |-> FALSE, val |-> RatDiv(lhs, rhs)]

\* Divide: zero for a zero right-hand side, the quotient otherwise
DivideValue(lhs, rhs) ==
    IF IsZero(rhs) THEN [fault |-> FALSE, val |-> Rat(0, 1)]
    ELSE [fault |-> FALSE, val |-> RatDiv(lhs, rhs)]

\* Exp: lhs / rhs, which faults in the library for a zero right-hand side
ExpValue(lhs, rhs) ==
    IF IsZero(rhs) THEN [fault |-> TRUE, val |-> Rat(0, 1)]
    ELSE [fault |-> FALSE, val |-> RatDiv(lhs, rhs)]

\* Rational::round: the nearest integer, halves away from zero
Round(r) ==
    IF r.n >= 0 THEN (2 * r.n + r.d) \div (2 * r.d)
    ELSE -((2 * (-r.n) + r.d) \div (2 * r.d))

\* a logical "and" where the bitwise one is meant
BitAndLogical(a, b) == IF a # 0 /\ b # 0 THEN 1 ELSE 0

\* Int & Int and Int | Int, on two's complement of unbounded width
RECURSIVE BitAnd(_, _)
BitAnd(a, b) ==
    IF a = 0 \/ b = 0 THEN 0
    ELSE IF a = -1 THEN b
    ELSE IF b = -1 THEN a
    ELSE (IF a % 2 = 1 /\ b % 2 = 1 THEN 1 ELSE 0) + 2 * BitAnd(a \div 2, b \div 2)

RECURSIVE BitOr(_, _)
BitOr(a, b) ==
    IF a = 0 THEN b
    ELSE IF b = 0 THEN a
    ELSE IF a = -1 \/ b = -1 THEN -1
    ELSE (IF a % 2 = 1 \/ b % 2 = 1 THEN 1 ELSE 0) + 2 * BitOr(a \div 2, b \div 2)

\* the value a binary operator pushes
BinaryValue(type, lhs, rhs) ==
    CASE type = "Plus" -> [fault |-> FALSE, val |-> RatAdd(lhs, rhs)]
      [] type = "Minus" -> [fault |-> FALSE, val |-> RatSub(lhs, rhs)]
      [] type = "Times" -> [fault |-> FALSE, val |-> RatMul(lhs, rhs)]
      [] type = "Divide" -> DivideValue(lhs, rhs)
      [] type = "Exp" -> ExpValue(lhs, rhs)
      [] type = "And" ->
           [fault |-> FALSE, val |-> Rat(BitAnd(Round(lhs), Round(rhs)), 1)]
      [] type = "Or" ->
           [fault |-> FALSE, val |-> Rat(BitOr(Round(lhs), Round(rhs)), 1)]

\* binary operators with the two operands exchanged
ExecBinarySwapped(c, type) ==
    LET r == Pop(c.stack)
        l == Pop(r.rest)
        v == BinaryValue(type, r.val, l.val)
    IN  IF l.some /\ r.some
        THEN IF v.fault THEN [c EXCEPT !.stack = l.rest, !.panic = TRUE]
             ELSE [c EXCEPT !.stack = Append(l.rest, v.val)]
        ELSE [c EXCEPT !.stack = l.rest, !.binShort = TRUE]

\* rhs = pop, lhs = pop, and a push only if both are Some
ExecBinary(c, type) ==
    LET r == Pop(c.stack)
        l == Pop(r.rest)
        v == BinaryValue(type, l.val, r.val)
    IN  IF l.some /\ r.some
        THEN IF v.fault THEN [c EXCEPT !.stack = l.rest, !.panic = TRUE]
             ELSE [c EXCEPT !.stack = Append(l.rest, v.val)]
        ELSE [c EXCEPT !.stack = l.rest, !.binShort = TRUE]

\* one iteration of compute's loop
ExecToken(c, token) ==
    CASE token.type = "Duplicate" -> ExecDuplicate(c)
      [] token.type = "Empty" -> ExecEmpty(c)
      [] token.type = "Drop" -> ExecDrop(c)
      [] token.type = "Number" -> ExecNumber(c, token.val)
      [] token.type \in BinaryOps -> ExecBinary(c, token.type)

\* the loop of compute: it stops at the first error return or fault
RECURSIVE ComputeLoop(_, _)
ComputeLoop(c, tokens) ==
    IF tokens = <<>> \/ c.err \/ c.panic THEN c
    ELSE ComputeLoop(ExecToken(c, Head(tokens)), Tail(tokens))

\* Calculator::compute
compute(s, tokens) == ComputeLoop(Started(s), tokens)

-----------------------------------------------------------------------------
(* Calculator::parse                                                       *)

NoRun == [entered |-> FALSE, dupEmpty |-> FALSE, dropEmpty |-> FALSE, binShort |-> FALSE]

RunOf(c) ==
    [entered |-> TRUE, dupEmpty |-> c.dupEmpty, dropEmpty |-> c.dropEmpty,
     binShort |-> c.binShort]

\* what a parse call leaves: how it ended ("ok", "err", or "panic" when it never
\* returned), the stage that made the error, the error's message and span, the
\* stack, and what the evaluator met
Outcome(status, stage, msg, start, end, s, r) ==
    [status |-> status, stage |-> stage, msg |-> msg, start |-> start, end |-> end,
     stack |-> s, run |-> r]

\* a collect that keeps the last error
LastError(lexed) ==
    IF \E i \in DOMAIN lexed : ~lexed[i].ok
    THEN CHOOSE i \in DOMAIN lexed : ~lexed[i].ok /\ \A j \in (i + 1)..Len(lexed) : lexed[j].ok
    ELSE 0

\* collect::<Result<Vec<_>, _>>(): the index of the first error, 0 if there is none
FirstError(lexed) ==
    IF \E i \in DOMAIN lexed : ~lexed[i].ok
    THEN CHOOSE i \in DOMAIN lexed : ~lexed[i].ok /\ \A j \in 1..(i - 1) : lexed[j].ok
    ELSE 0

TokensOf(lexed) == [i \in DOMAIN lexed |-> lexed[i].tok]

\* a parse without its final loop
NormalizeNone(s) == s

\* the final loop of parse
NormalizeAll(s) == [i \in DOMAIN s |-> Normalize(s[i])]

ExhaustionMsg == "Stack exhaustion would have occured during evaluation; aborting"
IncompleteMsg == "Incomplete expression, dropped stack"

\* parse with the verifier's verdict dropped: the evaluator runs on every lexed line
ParseTokensUngated(s, word, tokens) ==
    LET c == compute(s, tokens) IN
    IF c.panic THEN Outcome("panic", "compute", "", 0, 0, c.stack, RunOf(c))
    ELSE IF c.err
      THEN Outcome("err", "compute", IncompleteMsg, 0, StrLen(word), c.stack, RunOf(c))
    ELSE Outcome("ok", "none", "", 0, 0, NormalizeAll(c.stack), RunOf(c))

\* parse from the verifier on, for a line that lexed into tokens
ParseTokens(s, word, tokens) ==
    IF ~stack_exhaustion(Len(s), tokens)
    THEN Outcome("err", "verify", ExhaustionMsg, 0, StrLen(word), s, NoRun)
    ELSE LET c == compute(s, tokens) IN
         IF c.panic THEN Outcome("panic", "compute", "", 0, 0, c.stack, RunOf(c))
         ELSE IF c.err
           THEN Outcome("err", "compute", IncompleteMsg, 0, StrLen(word), c.stack, RunOf(c))
         ELSE Outcome("ok", "none", "", 0, 0, NormalizeAll(c.stack), RunOf(c))

parse(s, word) ==
    LET lexed == lex(word)
        bad == FirstError(lexed)
    IN  IF bad # 0
        THEN Outcome("err", "lex", lexed[bad].msg, lexed[bad].start, lexed[bad].end, s, NoRun)
        ELSE ParseTokens(s, word, TokensOf(lexed))

-----------------------------------------------------------------------------
(* main: read a line, parse it, print the stack                            *)

NoResult == [status |-> "none", stage |-> "none", msg |-> "", start |-> 0, end |-> 0]

ResultOf(o) ==
    [status |-> o.status, stage |-> o.stage, msg |-> o.msg, start |-> o.start, end |-> o.end]

Space == <<" ">>

RECURSIVE Join(_)
Join(frags) ==
    IF frags = <<>> THEN <<>>
    ELSE IF Len(frags) = 1 THEN frags[1]
    ELSE frags[1] \o Space \o Join(Tail(frags))

\* the fragments the lines of Spec are made of
Frags ==
    { <<"0">>, <<"4">>, <<"5">>, <<"+">>, <<"/">>, <<"^">>,
      <<"<">>, <<"!">>, <<"%">>, <<"$">> }

\* the characters the lines of SpecLex are made of
Chars == {" ", "0", "1", "x", "b", "!", "<", "$", "U+E9"}

SeqsUpTo(S, n) == UNION {[1..k -> S] : k \in 0..n}

Init ==
    /\ stack = <<>>
    /\ pc = "read"
    /\ line = <<>>
    /\ prev = <<>>
    /\ result = NoResult
    /\ run = NoRun
    /\ used = 0

\* con.read_line returns word and calculator.parse(&word) runs to its end
Submit(word, cost) ==
    LET o == parse(stack, word) IN
    /\ pc = "read"
    /\ line' = word
    /\ prev' = stack
    /\ stack' = o.stack
    /\ result' = ResultOf(o)
    /\ run' = o.run
    /\ pc' = IF o.status = "panic" THEN "panic" ELSE "print"
    /\ used' = used + cost

\* a line of fragments separated by single spaces
ReadLine ==
    \E fs \in SeqsUpTo(Frags, MaxTyped - used) : Submit(Join(fs), Len(fs))

\* a line of arbitrary characters
ReadChars ==
    \E cs \in SeqsUpTo(Chars, MaxChars - used) : Submit(cs, Len(cs))

\* the error, if any, and the stack are printed, the line goes to the history,
\* and main is back at read_line
ShowStack ==
    /\ pc = "print"
    /\ pc' = "read"
    /\ line' = <<>>
    /\ prev' = stack
    /\ result' = NoResult
    /\ run' = NoRun
    /\ UNCHANGED <<stack, used>>

Next == ReadLine \/ ShowStack

Spec == Init /\ [][Next]_vars

\* lines longer than the character budget allows, read whole
Examples ==
    { <<"3", " ", "$", " ", "5">>,
      <<" ", "5", " ", " ", "$", "x">>,
      <<"!", " ", "$", " ", "x">> }

ReadExample ==
    \E word \in Examples : used < MaxChars /\ Submit(word, 1)

NextLex == ReadChars \/ ReadExample \/ ShowStack

SpecLex == Init /\ [][NextLex]_vars

\* the fragments the lines of SpecBits are made of
BitFrags ==
    { <<"0", "x", "F", "F">>, <<"0", "x", "1">>, <<"0", "b", "1", "0", "1">>,
      <<"0", "b", "0", "1", "0">>, <<"&">>, <<"|">> }

\* lines that leave 1/2, 2/5 and 4/5 on the stack
BitExamples ==
    { Join(<< <<"0", "x", "1">>, <<"0", "b", "0", "1", "0">>, <<"/">> >>),
      Join(<< <<"0", "b", "0", "1", "0">>, <<"0", "b", "1", "0", "1">>, <<"/">> >>),
      Join(<< <<"0", "b", "0", "1", "0">>, <<"0", "b", "1", "0", "1">>,
              <<"0", "b", "0", "1", "0">>, <<"/">>, <<"/">> >>) }

ReadBits ==
    \E fs \in SeqsUpTo(BitFrags, MaxTyped - used) : Submit(Join(fs), Len(fs))

ReadBitExample ==
    \E word \in BitExamples : used < MaxTyped /\ Submit(word, 1)

NextBits == ReadBits \/ ReadBitExample \/ ShowStack

SpecBits == Init /\ [][NextBits]_vars

\* the fragments the lines of SpecArith are made of
ArithFrags == { <<"3">>, <<"5">>, <<"+">>, <<"-">>, <<"*">>, <<"/">> }

ReadArith ==
    \E fs \in SeqsUpTo(ArithFrags, MaxTyped - used) : Submit(Join(fs), Len(fs))

NextArith == ReadArith \/ ShowStack

SpecArith == Init /\ [][NextArith]_vars

\* the fragments the lines of SpecSplit are made of
SplitFrags == { <<"0">>, <<"5">>, <<"+">>, <<"/">>, <<"<">>, <<"!">>, <<"%">> }

ReadSplit ==
    \E fs \in SeqsUpTo(SplitFrags, MaxTyped - used) : Submit(Join(fs), Len(fs))

NextSplit == ReadSplit \/ ShowStack

SpecSplit == Init /\ [][NextSplit]_vars

-----------------------------------------------------------------------------
(* Vocabulary of the properties                                            *)

\* the last parse call has returned / has returned or faulted
Returned == pc = "print"
Ended == pc \in {"print", "panic"}

Lexed == FirstError(lex(line)) = 0
Toks == TokensOf(lex(line))
Accepted == Lexed /\ stack_exhaustion(Len(prev), Toks)

ValidSpan(start, end) == 0 <= start /\ start <= end /\ end <= StrLen(line)

Count(tokens, types) == Cardinality({i \in DOMAIN tokens : tokens[i].type \in types})

Prefix(tokens, k) == SubSeq(tokens, 1, k)

\* the depth the verifier has before token i, or None once it has found an underflow
DepthBefore(tokens, i) == Fold(Len(prev), Prefix(tokens, i - 1))

\* token i is an operator reached with fewer values than it pops, the verifier not
\* having found an underflow before it
UnderflowAt(tokens, i) ==
    /\ DepthBefore(tokens, i) # None
    /\ \/ tokens[i].type \in BinaryOps /\ DepthBefore(tokens, i) < 2
       \/ tokens[i].type = "Drop" /\ DepthBefore(tokens, i) = 0

-----------------------------------------------------------------------------
(* Properties                                                              *)

\* C1 (as claimed): a parse call that returns an error leaves the stack exactly
\* as it was when the call was entered.
C1_ErrorLeavesStack ==
    (Returned /\ result.status = "err") => stack = prev

\* C2: a line that fails lexing, or that stack_exhaustion rejects, makes parse
\* return an error with the stack equal to the stack before the call, and
\* compute is not entered.
C2_NoMutationOnRejection ==
    (Ended /\ ~Accepted) =>
        /\ Returned
        /\ result.status = "err"
        /\ stack = prev
        /\ ~run.entered

\* C2 witness: the verifier rejected a line on a non-empty stack.
C2_Witness ==
    /\ Returned
    /\ Lexed
    /\ ~Accepted
    /\ Len(prev) >= 1
    /\ result.stage = "verify"

\* C3 (as claimed): on a token sequence stack_exhaustion accepts, compute never
\* pops from an empty stack: Duplicate never finds the stack empty, Drop never
\* finds it empty, no binary operator finds fewer than two operands.
C3_VerifierSound ==
    (Ended /\ Accepted) => ~run.dupEmpty /\ ~run.dropEmpty /\ ~run.binShort

\* C4 (as claimed): if the verifier's left-to-right fold reaches a binary
\* operator with running depth below 2, or a Drop with running depth 0, parse
\* returns the stack-exhaustion error spanning the whole line and compute does
\* not run, whatever tokens follow.
C4_UnderflowRejectsLine ==
    (Ended /\ Lexed /\ \E i \in DOMAIN Toks : UnderflowAt(Toks, i)) =>
        /\ Returned
        /\ result.status = "err"
        /\ result.msg = ExhaustionMsg
        /\ result.start = 0
        /\ result.end = StrLen(line)
        /\ ~run.entered

\* C5: on an empty stack, parse("+") returns the stack-exhaustion error and
\* parse("5 + +") returns an error, and both leave the stack empty.
C5_UnderflowOnEmptyStack ==
    (Ended /\ prev = <<>> /\ line \in {<<"+">>, <<"5", " ", "+", " ", "+">>}) =>
        /\ Returned
        /\ result.status = "err"
        /\ result.msg = ExhaustionMsg
        /\ stack = <<>>

\* C5 witness: "5 + +" was submitted on an empty stack.
C5_Witness ==
    /\ Returned
    /\ prev = <<>>
    /\ line = <<"5", " ", "+", " ", "+">>
    /\ result.status = "err"

\* the values available to token i when every token before it is a Number or a
\* binary operator that found its two operands
Avail(tokens, i) ==
    Len(prev) + Count(Prefix(tokens, i - 1), {"Number"})
              - Count(Prefix(tokens, i - 1), BinaryOps)

\* C6 (as claimed): a line made only of Number and binary-operator tokens, in
\* which no operator is reached with fewer than two values available, makes
\* parse return Ok with stack length = length before + #Number - #BinaryOp.
C6_DepthConservation ==
    (/\ Ended
     /\ Lexed
     /\ \A i \in DOMAIN Toks : Toks[i].type \in BinaryOps \cup {"Number"}
     /\ \A i \in DOMAIN Toks : Toks[i].type \in BinaryOps => Avail(Toks, i) >= 2) =>
        /\ Returned
        /\ result.status = "ok"
        /\ Len(stack) = Len(prev) + Count(Toks, {"Number"}) - Count(Toks, BinaryOps)

\* the evaluator's state before the last token of the line
BeforeLast == compute(prev, Prefix(Toks, Len(Toks) - 1))

\* C7: Divide on a stack of depth >= 2 whose top value is zero returns no error
\* and replaces the top two values by 0/1, leaving the values below unchanged;
\* parse("4 0 /") on an empty stack returns Ok with the stack exactly <<0/1>>.
C7_DivideByZero ==
    /\ (/\ Ended
        /\ Accepted
        /\ Toks # <<>>
        /\ Toks[Len(Toks)].type = "Divide"
        /\ ~BeforeLast.err
        /\ ~BeforeLast.panic
        /\ Len(BeforeLast.stack) >= 2
        /\ IsZero(BeforeLast.stack[Len(BeforeLast.stack)])) =>
            /\ Returned
            /\ result.status = "ok"
            /\ stack = NormalizeAll(
                  Append(Prefix(BeforeLast.stack, Len(BeforeLast.stack) - 2), Rat(0, 1)))
    /\ (Ended /\ prev = <<>> /\ line = <<"4", " ", "0", " ", "/">>) =>
            /\ Returned
            /\ result.status = "ok"
            /\ stack = <<Rat(0, 1)>>

\* C7 witness: "4 0 /" was run on a non-empty stack, so a value lies below the
\* two operands.
C7_Witness ==
    /\ Returned
    /\ Len(prev) >= 1
    /\ line = <<"4", " ", "0", " ", "/">>
    /\ Len(stack) = Len(prev) + 1

\* the line with every '^' replaced by '/'
WithDivide(word) == [i \in DOMAIN word |-> IF word[i] = "^" THEN "/" ELSE word[i]]

\* C8 (as claimed): a line using '^' ends as the same line with '/' in its place
\* ends: the same outcome and the same final stack, a zero right-hand operand
\* included.
C8_ExpAsDivide ==
    (Ended /\ \E i \in DOMAIN line : line[i] = "^") =>
        /\ result.status = parse(prev, WithDivide(line)).status
        /\ stack = parse(prev, WithDivide(line)).stack

\* the tokens after the last Empty of a sequence holding one
AfterLastEmpty(tokens) ==
    LET last == CHOOSE i \in DOMAIN tokens :
                    /\ tokens[i].type = "Empty"
                    /\ \A j \in DOMAIN tokens : tokens[j].type = "Empty" => j <= i
    IN  SubSeq(tokens, last + 1, Len(tokens))

\* C9: parse("%") returns Ok and leaves the stack empty, whatever the stack was;
\* after a successful line holding a '%', the stack is what the tokens after the
\* last '%' leave when run on an empty stack.
C9_ClearAll ==
    /\ (Ended /\ line = <<"%">>) =>
            Returned /\ result.status = "ok" /\ stack = <<>>
    /\ (/\ Returned
        /\ result.status = "ok"
        /\ \E i \in DOMAIN Toks : Toks[i].type = "Empty") =>
            stack = NormalizeAll(compute(<<>>, AfterLastEmpty(Toks)).stack)

\* C9 witness: a successful line with tokens after its last '%', on a non-empty
\* stack.
C9_Witness ==
    /\ Returned
    /\ result.status = "ok"
    /\ prev # <<>>
    /\ \E i \in DOMAIN Toks : Toks[i].type = "Empty"
    /\ Toks[Len(Toks)].type # "Empty"
    /\ stack # <<>>

\* C10: every TokenError Token::lex yields for the line, and every TokenError
\* parse returns for it, has 0 <= span.start <= span.end <= line.len().
C10_SpanValid ==
    Ended =>
        /\ \A i \in DOMAIN lex(line) :
               ~lex(line)[i].ok => ValidSpan(lex(line)[i].start, lex(line)[i].end)
        /\ result.status = "err" => ValidSpan(result.start, result.end)

\* C10 witness: parse returned a lexical error for a fragment that starts after
\* the beginning of the line and ends at its end.
C10_Witness ==
    /\ Returned
    /\ result.status = "err"
    /\ result.stage = "lex"
    /\ result.start >= 2
    /\ result.end = StrLen(line)

\* positions i..j of the line hold a whitespace-delimited fragment
IsFragment(word, i, j) ==
    /\ i <= j
    /\ \A k \in i..j : ~IsWhitespace(word[k])
    /\ i = 1 \/ IsWhitespace(word[i - 1])
    /\ j = Len(word) \/ IsWhitespace(word[j + 1])

\* how many fragments end before position i
FragmentsBefore(word, i) ==
    Cardinality({k \in 1..(i - 1) :
        ~IsWhitespace(word[k]) /\ (k = i - 1 \/ IsWhitespace(word[k + 1]))})

\* C11: a whitespace-delimited fragment whose first character is neither an
\* ASCII digit nor an operator character lexes to an error whose span is the
\* fragment's byte range in the original line; lexing "3 $ 5" yields an error
\* with span 2..3.
C11_SpanIsFragmentRange ==
    Ended =>
        /\ \A i, j \in DOMAIN line :
              (/\ IsFragment(line, i, j)
               /\ ~IsAsciiDigit(line[i])
               /\ OperatorOf(line[i]) = "none") =>
                  LET e == lex(line)[FragmentsBefore(line, i) + 1]
                  IN  /\ ~e.ok
                      /\ e.start = StrLen(SubSeq(line, 1, i - 1))
                      /\ e.end = StrLen(SubSeq(line, 1, j))
        /\ line = <<"3", " ", "$", " ", "5">> =>
              /\ Len(lex(line)) = 3
              /\ lex(line)[1].ok
              /\ ~lex(line)[2].ok
              /\ lex(line)[2].start = 2
              /\ lex(line)[2].end = 3
              /\ lex(line)[3].ok

\* C11 witness: "3 $ 5" was lexed and parse returned the error at 2..3.
C11_Witness ==
    /\ Returned
    /\ line = <<"3", " ", "$", " ", "5">>
    /\ result.stage = "lex"
    /\ result.start = 2
    /\ result.end = 3

\* the fragments of the line that fail lexing, by position among the fragments
Failing == {i \in DOMAIN lex(line) : ~lex(line)[i].ok}

Leftmost == CHOOSE i \in Failing : \A j \in Failing : i <= j

\* C12: if a fragment of the line fails lexing, parse returns the error of the
\* leftmost failing fragment, with that fragment's span, and neither the
\* verifier nor the evaluator runs, also when the line would underflow.
C12_FirstLexErrorWins ==
    (Ended /\ Failing # {}) =>
        /\ Returned
        /\ result.status = "err"
        /\ result.stage = "lex"
        /\ result.msg = lex(line)[Leftmost].msg
        /\ result.start = lex(line)[Leftmost].start
        /\ result.end = lex(line)[Leftmost].end
        /\ ~run.entered
        /\ stack = prev

\* C12 witness: two fragments fail and a Drop on the empty stack precedes them.
C12_Witness ==
    /\ Returned
    /\ prev = <<>>
    /\ Cardinality(Failing) = 2
    /\ lex(line)[1].ok
    /\ lex(line)[1].tok.type = "Drop"
    /\ result.start = 2

\* C13: on every non-empty stack left by earlier lines, parse("< !") returns Ok
\* and leaves the stack as it was; parse("5 < !") on an empty stack leaves <<5>>.
C13_DuplicateDrop ==
    /\ (Ended /\ prev # <<>> /\ line = <<"<", " ", "!">>) =>
            Returned /\ result.status = "ok" /\ stack = prev
    /\ (Ended /\ prev = <<>> /\ line = <<"5", " ", "<", " ", "!">>) =>
            Returned /\ result.status = "ok" /\ stack = <<Rat(5, 1)>>

\* C13 witness: "< !" was run on a stack of two different values.
C13_Witness ==
    /\ Returned
    /\ line = <<"<", " ", "!">>
    /\ Len(prev) = 2
    /\ prev[1] # prev[2]
    /\ stack = prev

\* the integers nearest to a rational: one, or two when it lies half way
Nearest(r) ==
    {k \in (r.n \div r.d)..((r.n \div r.d) + 1) : 2 * Abs(r.n - k * r.d) <= r.d}

Bit(a, k) == (a \div (2 ^ k)) % 2

\* v is the bitwise AND / OR of the non-negative integers a and b
IsAnd(v, a, b) ==
    /\ 0 <= v /\ v < 2 ^ 20
    /\ \A k \in 0..19 : Bit(v, k) = Bit(a, k) * Bit(b, k)
IsOr(v, a, b) ==
    /\ 0 <= v /\ v < 2 ^ 20
    /\ \A k \in 0..19 : Bit(v, k) = IF Bit(a, k) + Bit(b, k) >= 1 THEN 1 ELSE 0

\* the two values the last token of the line finds on top of the stack
Lhs == BeforeLast.stack[Len(BeforeLast.stack) - 1]
Rhs == BeforeLast.stack[Len(BeforeLast.stack)]
Below == Prefix(BeforeLast.stack, Len(BeforeLast.stack) - 2)

\* the last token is of one of the types and finds two operands
LastIs(types) ==
    /\ Ended
    /\ Accepted
    /\ Toks # <<>>
    /\ Toks[Len(Toks)].type \in types
    /\ ~BeforeLast.err
    /\ ~BeforeLast.panic
    /\ Len(BeforeLast.stack) >= 2

\* C14: And (Or) replaces the top two values by the bitwise AND (OR) of the two
\* values each rounded to the nearest integer, as a rational of denominator 1;
\* "0xFF 0x1 &" on an empty stack yields <<1>>, "0b101 0b010 |" yields <<7>>.
C14_Bitwise ==
    /\ LastIs({"And", "Or"}) =>
          /\ Returned
          /\ result.status = "ok"
          /\ Len(stack) = Len(Below) + 1
          /\ Prefix(stack, Len(Below)) = NormalizeAll(Below)
          /\ stack[Len(stack)].d = 1
          /\ \E a \in Nearest(Lhs), b \in Nearest(Rhs) :
                IF Toks[Len(Toks)].type = "And"
                THEN IsAnd(stack[Len(stack)].n, a, b)
                ELSE IsOr(stack[Len(stack)].n, a, b)
    /\ (Ended /\ prev = <<>> /\ line = Join(<< <<"0", "x", "F", "F">>, <<"0", "x", "1">>, <<"&">> >>)) =>
          Returned /\ result.status = "ok" /\ stack = <<Rat(1, 1)>>
    /\ (Ended /\ prev = <<>>
          /\ line = Join(<< <<"0", "b", "1", "0", "1">>, <<"0", "b", "0", "1", "0">>, <<"|">> >>)) =>
          Returned /\ result.status = "ok" /\ stack = <<Rat(7, 1)>>

\* C14 witness: And met 4/5 below 0xFF and pushed 1.
C14_Witness ==
    /\ LastIs({"And"})
    /\ Returned
    /\ Normalize(Lhs) = Rat(4, 5)
    /\ Normalize(Rhs) = Rat(255, 1)
    /\ stack = <<Rat(1, 1)>>

\* a rational in lowest terms: positive denominator, no common divisor
LowestTerms(r) ==
    /\ r.d > 0
    /\ \A k \in 2..r.d : ~(r.n % k = 0 /\ r.d % k = 0)

\* C15: after every parse call that returns Ok, every rational on the stack has
\* coprime numerator and denominator and a denominator greater than 0.
C15_NormalizedStack ==
    (Returned /\ result.status = "ok") =>
        \A i \in DOMAIN stack : LowestTerms(stack[i])

\* C15 witness: the evaluator left a value that was not in lowest terms, above
\* another value.
C15_Witness ==
    /\ Returned
    /\ result.status = "ok"
    /\ Len(stack) = 2
    /\ ~LowestTerms(compute(prev, Toks).stack[2])

\* the value v is the rational n / d
IsQuotient(v, n, d) == v.n * d = n * v.d

\* C16: with b on top and a directly below, Plus, Minus and Times remove both
\* and push a+b, a-b and a*b, Divide with b non-zero pushes a/b, and the values
\* below a are unchanged.
C16_OperandOrder ==
    (LastIs({"Plus", "Minus", "Times", "Divide"})
       /\ (Toks[Len(Toks)].type = "Divide" => ~IsZero(Rhs))) =>
        /\ Returned
        /\ result.status = "ok"
        /\ Len(stack) = Len(Below) + 1
        /\ Prefix(stack, Len(Below)) = NormalizeAll(Below)
        /\ LET top == stack[Len(stack)]
               type == Toks[Len(Toks)].type
           IN  CASE type = "Plus" ->
                      IsQuotient(top, Lhs.n * Rhs.d + Rhs.n * Lhs.d, Lhs.d * Rhs.d)
                 [] type = "Minus" ->
                      IsQuotient(top, Lhs.n * Rhs.d - Rhs.n * Lhs.d, Lhs.d * Rhs.d)
                 [] type = "Times" ->
                      IsQuotient(top, Lhs.n * Rhs.n, Lhs.d * Rhs.d)
                 [] type = "Divide" ->
                      IsQuotient(top, Lhs.n * Rhs.d, Lhs.d * Rhs.n)

\* C16 witness: Minus met 3 below 5 on top of a third value and pushed -2.
C16_Witness ==
    /\ LastIs({"Minus"})
    /\ Returned
    /\ Len(Below) = 1
    /\ Lhs = Rat(3, 1)
    /\ Rhs = Rat(5, 1)
    /\ stack[2] = Rat(-2, 1)

RECURSIVE Runnable(_, _)
Runnable(depth, tokens) ==
    IF tokens = <<>> THEN TRUE
    ELSE LET type == Head(tokens).type IN
         CASE type = "Number" -> Runnable(depth + 1, Tail(tokens))
           [] type = "Duplicate" -> depth >= 1 /\ Runnable(depth + 1, Tail(tokens))
           [] type = "Drop" -> depth >= 1 /\ Runnable(depth - 1, Tail(tokens))
           [] type = "Empty" -> Runnable(0, Tail(tokens))
           [] type \in BinaryOps -> depth >= 2 /\ Runnable(depth - 1, Tail(tokens))

\* C19: for a token sequence whose token-by-token execution always finds the
\* operands it needs, stack_exhaustion returns Ok, and when parse returns Ok the
\* final stack length equals the verifier's final running depth.
C19_VerifierComplete ==
    (Ended /\ Lexed /\ Runnable(Len(prev), Toks)) =>
        /\ stack_exhaustion(Len(prev), Toks)
        /\ result.stage # "verify"
        /\ (Returned /\ result.status = "ok") => Len(stack) = Fold(Len(prev), Toks)

\* C19 witness: a line with a Duplicate, a binary operator and a Drop, each
\* finding exactly what it needs, returned Ok.
C19_Witness ==
    /\ Returned
    /\ result.status = "ok"
    /\ Runnable(Len(prev), Toks)
    /\ \E i, j, k \in DOMAIN Toks :
          /\ Toks[i].type = "Duplicate"
          /\ Toks[j].type \in BinaryOps
          /\ Toks[k].type = "Drop"
    /\ stack = <<>>

\* the lines the session can still submit after the line it has just parsed
SecondLines == {Join(fs) : fs \in SeqsUpTo(SplitFrags, MaxTyped - used)}

\* C18: if parse(A) returns Ok and then parse(B) returns Ok, then from the
\* stack A started on, parse(A + " " + B) returns Ok and ends with the same
\* stack as the two calls in sequence.  (Stated after the call on A, for every
\* B that would return Ok from the stack A left.)
C18_SplitTransparent ==
    (Returned /\ result.status = "ok") =>
        \A B \in SecondLines :
            parse(stack, B).status = "ok" =>
                /\ parse(prev, line \o Space \o B).status = "ok"
                /\ parse(prev, line \o Space \o B).stack = parse(stack, B).stack

\* C18 witness: a line ending in a Duplicate returned Ok and a second line of
\* two tokens would return Ok and change the stack.
C18_Witness ==
    /\ Returned
    /\ result.status = "ok"
    /\ Len(Toks) = 2
    /\ Toks[2].type = "Duplicate"
    /\ \E B \in SecondLines :
          /\ Len(B) = 3
          /\ parse(stack, B).status = "ok"
          /\ parse(stack, B).stack # stack

====
